---- MODULE Spec2Model ----
(***************************************************************************)
(* A model of system_file_saver.py: the manifest loader (class FileList),  *)
(* the rsync invoker (class Rsyncer) and the __main__ script that composes *)
(* them.  A Python str is modelled as a sequence of one-character strings, *)
(* so that strip(), os.path.split(), os.path.normpath() and ' '.join() are *)
(* computed character by character as the library computes them.           *)
(***************************************************************************)
EXTENDS Naturals, Sequences, FiniteSets, TLC

(***************************************************************************)
(* Bounds of the model.                                                    *)
(***************************************************************************)
\* the largest number of lines a manifest holds beside those the loader skips
MaxLines == 2
\* the largest number of paths in the set handed to the closure on its own
MaxPaths == 2

(***************************************************************************)
(* Strings.                                                                *)
(***************************************************************************)
NL == "\n"
None == <<"None">>

Last(s) == s[Len(s)]
Front(s) == SubSeq(s, 1, Len(s) - 1)

StartsWith(s, pre) ==
    /\ Len(pre) <= Len(s)
    /\ SubSeq(s, 1, Len(pre)) = pre

\* the characters str.strip() removes
IsSpace(c) == c \in {" ", NL, "\t"}

RECURSIVE LStrip(_)
LStrip(s) == IF s # <<>> /\ IsSpace(Head(s)) THEN LStrip(Tail(s)) ELSE s

RECURSIVE RStrip(_)
RStrip(s) == IF s # <<>> /\ IsSpace(Last(s)) THEN RStrip(Front(s)) ELSE s

\* str.strip()
Strip(s) == RStrip(LStrip(s))

RECURSIVE RStripSep(_)
RStripSep(s) == IF s # <<>> /\ Last(s) = "/" THEN RStripSep(Front(s)) ELSE s

\* str.rfind('/') + 1: the position of the last separator, 0 when there is none
RFindSep(s) ==
    LET idx == {i \in 1..Len(s) : s[i] = "/"}
    IN  IF idx = {} THEN 0 ELSE CHOOSE i \in idx : \A j \in idx : j <= i

AllSep(s) == \A i \in 1..Len(s) : s[i] = "/"

\* os.path.split (posixpath): <<head, tail>>
Split(p) ==
    LET i    == RFindSep(p)
        head == SubSeq(p, 1, i)
        tail == SubSeq(p, i + 1, Len(p))
    IN  <<IF head # <<>> /\ ~AllSep(head) THEN RStripSep(head) ELSE head, tail>>

\* str.split('/'): the components between separators, empty ones included
RECURSIVE Components(_)
Components(s) ==
    LET idx == {i \in 1..Len(s) : s[i] = "/"}
    IN  IF idx = {} THEN <<s>>
        ELSE LET i == CHOOSE k \in idx : \A j \in idx : k <= j
             IN  <<SubSeq(s, 1, i - 1)>> \o Components(SubSeq(s, i + 1, Len(s)))

\* sep.join(parts)
RECURSIVE JoinWith(_, _)
JoinWith(sep, parts) ==
    IF parts = <<>> THEN <<>>
    ELSE IF Len(parts) = 1 THEN parts[1]
    ELSE parts[1] \o sep \o JoinWith(sep, Tail(parts))

\* the component loop of os.path.normpath
RECURSIVE NormComps(_, _, _)
NormComps(comps, acc, initial) ==
    IF comps = <<>> THEN acc
    ELSE LET c == Head(comps)
         IN  IF c \in {<<>>, <<".">>}
             THEN NormComps(Tail(comps), acc, initial)
             ELSE IF \/ c # <<".", ".">>
                     \/ (initial = 0 /\ acc = <<>>)
                     \/ (acc # <<>> /\ Last(acc) = <<".", ".">>)
             THEN NormComps(Tail(comps), Append(acc, c), initial)
             ELSE IF acc # <<>>
             THEN NormComps(Tail(comps), Front(acc), initial)
             ELSE NormComps(Tail(comps), acc, initial)

\* os.path.normpath (posixpath)
NormPath(path) ==
    IF path = <<>> THEN <<".">>
    ELSE LET initial == IF ~StartsWith(path, <<"/">>) THEN 0
                        ELSE IF StartsWith(path, <<"/", "/">>)
                                /\ ~StartsWith(path, <<"/", "/", "/">>) THEN 2
                        ELSE 1
             body    == JoinWith(<<"/">>, NormComps(Components(path), <<>>, initial))
             out     == [i \in 1..initial |-> "/"] \o body
         IN  IF out = <<>> THEN <<".">> ELSE out


(***************************************************************************)
(* String literals of the program, character by character.                 *)
(***************************************************************************)
Root == <<"/">>
VerboseFlag == <<"-", "-", "v", "e", "r", "b", "o", "s", "e">>
QuietFlag == <<"-", "-", "q", "u", "i", "e", "t">>
ArchiveFlag == <<"-", "-", "a", "r", "c", "h", "i", "v", "e">>
DryRunFlag == <<"-", "-", "d", "r", "y", "-", "r", "u", "n">>
ItemizeFlag == <<"-", "-", "i", "t", "e", "m", "i", "z", "e", "-", "c", "h", "a", "n", "g", "e", "s">>
ChecksumFlag == <<"-", "-", "c", "h", "e", "c", "k", "s", "u", "m">>
DeleteAfterFlag == <<"-", "-", "d", "e", "l", "e", "t", "e", "-", "a", "f", "t", "e", "r">>
IncludePrefix == <<"-", "-", "i", "n", "c", "l", "u", "d", "e", "=">>
ExcludeAll == <<"-", "-", "e", "x", "c", "l", "u", "d", "e", "=", "'", "*", "'">>

(***************************************************************************)
(* The environment: the file system, the home directory, the host name and *)
(* the place of rsync.  Paths of the file system are absolute and          *)
(* normalised; a directory exists when it is the root, an ancestor of a    *)
(* regular file, or one of the empty directories.                          *)
(***************************************************************************)
Home == <<"/", "h">>
Cwd == Root
HostName == <<"g">>
RsyncPath == <<"/", "b", "i", "n", "/", "r", "s", "y", "n", "c">>

Manifest == <<"/", "h", "/", "s", "/", "m">>
FileABC == <<"/", "a", "/", "b", "/", "c">>
FileAB == <<"/", "a", "/", "b">>
FileB == <<"/", "b">>
DirT == <<"/", "t">>

\* every proper ancestor directory of an absolute normalised path, root excluded
AncestorsOf(p) ==
    {SubSeq(p, 1, i - 1) : i \in {k \in 2..Len(p) : p[k] = "/" /\ p[k - 1] # "/"}}

FSUniverse ==
    { [files |-> {Manifest, FileABC, FileB}, emptyDirs |-> {DirT}],
      [files |-> {Manifest, FileAB},         emptyDirs |-> {}],
      [files |-> {FileB},                    emptyDirs |-> {DirT}] }

\* the manifest lines a run may read
LineUniverse ==
    { <<"/", "a", "/", "b", "/", "c", "\n">>,
      <<"/", "b", "\n">>,
      <<"/", "a", "/", "b", "\n">>,
      <<"/", "x", "\n">>,
      <<"#", "b", "\n">>,
      <<"\n">>,
      <<" ", "\n">>,
      <<" ", "/", "b", "\n">>,
      <<"b", "\n">>,
      <<"/", "/", "b", "\n">>,
      <<"/", "b", " ", "\n">>,
      <<"/", "a", "/", "/", "b", "\n">>,
      <<"/", "b">> }

\* the command lines a run may be given
InputUniverse == {<<"~", "/", "s", "/", "m">>, <<"/", "x">>}
TargetUniverse == {<<"~", "/", "s", "/">>, <<"/", "t">>, <<".">>}
HostUniverse == {None, <<"n">>, <<"/", "n">>}
FlagUniverse ==
    { [dry_run |-> FALSE, itemize_changes |-> FALSE, checksum |-> FALSE, delete_after |-> FALSE],
      [dry_run |-> FALSE, itemize_changes |-> TRUE,  checksum |-> FALSE, delete_after |-> FALSE],
      [dry_run |-> TRUE,  itemize_changes |-> FALSE, checksum |-> TRUE,  delete_after |-> FALSE],
      [dry_run |-> TRUE,  itemize_changes |-> TRUE,  checksum |-> TRUE,  delete_after |-> TRUE] }

\* the absolute normalised path a path names, seen from the working directory
Resolve(p) ==
    LET q == IF StartsWith(p, Root) THEN p ELSE Cwd \o Root \o p
        n == NormPath(q)
    IN  IF StartsWith(n, <<"/", "/">>) THEN Tail(n) ELSE n

\* the directories of a file system
Dirs(f) == {Root} \cup UNION {AncestorsOf(x) : x \in f.files} \cup f.emptyDirs

\* os.path.isfile
IsFile(f, p) ==
    /\ p # <<>>
    /\ Split(p)[2] \notin {<<>>, <<".">>, <<".", ".">>}
    /\ Resolve(p) \in f.files

\* os.path.isdir
IsDir(f, p) ==
    /\ p # <<>>
    /\ Resolve(p) \in Dirs(f)

\* os.path.expanduser, for the paths that name the invoking user's home
ExpandUser(p) ==
    IF StartsWith(p, <<"~">>) /\ (Len(p) = 1 \/ p[2] = "/")
    THEN LET out == RStripSep(Home) \o SubSeq(p, 2, Len(p))
         IN  IF out = <<>> THEN Root ELSE out
    ELSE p

\* every order in which the members of a set can be iterated
Orderings(S) ==
    {o \in [1..Cardinality(S) -> S] : \A i, j \in 1..Cardinality(S) : o[i] = o[j] => i = j}

(***************************************************************************)
(* The state of a run.                                                     *)
(***************************************************************************)
VARIABLES
    pc,             \* the statement the run is at
    fs,             \* the file system the run sees
    options,        \* optparse's options
    verbosity,      \* the module-level verbosity
    rsync_loc,      \* find_executable("rsync")
    flags,          \* the list of extra flags
    files,          \* FileList.files
    rawEntries,     \* FileList.files as it was when __split was entered
    rejected,       \* the lines that failed the existence check
    linesRead,      \* how many lines that are not skipped have been read
    lastLineRead,   \* a line without a newline, the last of its file, has been read
    warnings,       \* how many warnings were printed
    todo,           \* the members of FileList.files __split has still to visit
    tmpset,         \* __split's tmpset
    newpath,        \* __split's newpath
    applied,        \* how many times __split has run to its end
    rs,             \* the fields of the Rsyncer
    command,        \* Rsyncer.command
    com,            \* the command string handed to the shell
    callCount,      \* how many times subprocess.call was entered
    stdoutSink,     \* where the subprocess's standard output goes
    sinkOpen,       \* the file opened on os.devnull is still open
    exitStatus,     \* the exit status of the process
    stderr          \* the message sys.exit wrote

vars == <<pc, fs, options, verbosity, rsync_loc, flags, files, rawEntries, rejected,
          linesRead, lastLineRead, warnings, todo, tmpset, newpath, applied, rs,
          command, com, callCount, stdoutSink, sinkOpen, exitStatus, stderr>>

mainVars == <<options, verbosity, rsync_loc, flags>>
loadVars == <<files, rawEntries, rejected, linesRead, lastLineRead, warnings>>
splitVars == <<todo, tmpset, newpath, applied>>
syncVars == <<rs, command, com, callCount, stdoutSink, sinkOpen>>
exitVars == <<exitStatus, stderr>>

NoOptions == [input_file |-> None, target_directory |-> None, hostname |-> None,
              verbose |-> FALSE, quiet |-> FALSE, dry_run |-> FALSE,
              itemize_changes |-> FALSE, checksum |-> FALSE, delete_after |-> FALSE]
NoRsyncer == [rsync_loc |-> None, target_directory |-> None, hostname |-> None,
              verbosity |-> 1, flags |-> <<>>]

\* what holds of every variable but the file system and FileList.files at the start
Blank ==
    /\ options = NoOptions
    /\ verbosity = 1
    /\ rsync_loc = None
    /\ flags = <<>>
    /\ rejected = {}
    /\ linesRead = 0
    /\ lastLineRead = FALSE
    /\ warnings = 0
    /\ tmpset = {}
    /\ newpath = <<>>
    /\ applied = 0
    /\ rs = NoRsyncer
    /\ command = <<>>
    /\ com = <<>>
    /\ callCount = 0
    /\ stdoutSink = "none"
    /\ sinkOpen = FALSE
    /\ exitStatus = None
    /\ stderr = ""

Init ==
    /\ pc = "start"
    /\ fs \in FSUniverse
    /\ files = {}
    /\ rawEntries = {}
    /\ todo = {}
    /\ Blank

\* sys.exit(arg): a string is written to standard error and the status is 1
Exit(msg) ==
    /\ pc' = "exited"
    /\ exitStatus' = 1
    /\ stderr' = msg

\* the choice every fatal check makes between exit(message) and exit(1)
Fatal(v, msg) == Exit(IF v >= 1 THEN msg ELSE "")

(***************************************************************************)
(* __main__                                                                *)
(***************************************************************************)
\* a verbosity selection in which --verbose wins over --quiet
VerbosityVerboseFirst(q, v) == IF v THEN 2 ELSE IF q THEN 0 ELSE 1

\* the verbosity __main__ derives from --quiet and --verbose
VerbosityOf(q, v) == IF q THEN 0 ELSE IF v THEN 2 ELSE 1

\* parser.parse_args() and the verbosity it selects
ParseArgs ==
    /\ pc = "start"
    /\ \E i \in InputUniverse, t \in TargetUniverse, h \in HostUniverse,
          v \in BOOLEAN, q \in BOOLEAN, fl \in FlagUniverse :
          /\ options' = [input_file |-> i, target_directory |-> t, hostname |-> h,
                         verbose |-> v, quiet |-> q, dry_run |-> fl.dry_run,
                         itemize_changes |-> fl.itemize_changes,
                         checksum |-> fl.checksum, delete_after |-> fl.delete_after]
          /\ verbosity' = VerbosityOf(q, v)
    /\ pc' = "find_rsync"
    /\ UNCHANGED <<fs, rsync_loc, flags, loadVars, splitVars, syncVars, exitVars>>

\* find_executable found nothing
RsyncMissing ==
    /\ pc = "find_rsync"
    /\ rsync_loc' = None
    /\ Fatal(verbosity, "Can not find rsync.")
    /\ UNCHANGED <<fs, options, verbosity, flags, loadVars, splitVars, syncVars>>

\* find_executable found rsync: the host name, the flags and the expanded paths
RsyncFound ==
    /\ pc = "find_rsync"
    /\ rsync_loc' = RsyncPath
    /\ options' = [options EXCEPT
                     !.hostname = IF options.hostname = None THEN HostName ELSE @,
                     !.target_directory = ExpandUser(@),
                     !.input_file = ExpandUser(@)]
    /\ flags' = (IF options.dry_run THEN <<DryRunFlag>> ELSE <<>>)
                \o (IF options.itemize_changes THEN <<ItemizeFlag>> ELSE <<>>)
                \o (IF options.checksum THEN <<ChecksumFlag>> ELSE <<>>)
                \o (IF options.delete_after THEN <<DeleteAfterFlag>> ELSE <<>>)
    /\ pc' = "filelist_init"
    /\ UNCHANGED <<fs, verbosity, loadVars, splitVars, syncVars, exitVars>>

(***************************************************************************)
(* FileList                                                                *)
(***************************************************************************)
\* FileList.__init__ up to the check of the input file
FileListInit ==
    /\ pc = "filelist_init"
    /\ files' = {}
    /\ IF ~IsFile(fs, options.input_file)
       THEN /\ Fatal(verbosity, "Input file list not found!")
       ELSE /\ pc' = "read"
            /\ UNCHANGED exitVars
    /\ UNCHANGED <<fs, mainVars, rawEntries, rejected, linesRead, lastLineRead,
                   warnings, splitVars, syncVars>>

\* a line is skipped by the loader
Skipped(line) == StartsWith(line, <<"#">>) \/ line = <<>> \/ line = <<NL>>

\* a loop over the lines that warns of a line that is no file and keeps it
ReadLineKeepsRejected ==
    /\ pc = "read"
    /\ ~lastLineRead
    /\ linesRead < MaxLines
    /\ \E line \in LineUniverse :
          LET l == Strip(line)
          IN  /\ lastLineRead' = (Last(line) # NL)
              /\ IF Skipped(line)
                 THEN UNCHANGED <<files, rejected, warnings, linesRead>>
                 ELSE /\ files' = files \cup {line}
                      /\ linesRead' = linesRead + 1
                      /\ IF IsFile(fs, l)
                         THEN UNCHANGED <<rejected, warnings>>
                         ELSE /\ rejected' = rejected \cup {line}
                              /\ warnings' = IF verbosity >= 1 THEN warnings + 1
                                                               ELSE warnings
    /\ UNCHANGED <<pc, fs, mainVars, rawEntries, splitVars, syncVars, exitVars>>

\* one turn of the loop over the lines of the input file
ReadLine ==
    /\ pc = "read"
    /\ ~lastLineRead
    /\ linesRead < MaxLines
    /\ \E line \in LineUniverse :
          LET l == Strip(line)
          IN  /\ lastLineRead' = (Last(line) # NL)
              /\ IF Skipped(line)
                 THEN UNCHANGED <<files, rejected, warnings, linesRead>>
                 ELSE IF IsFile(fs, l)
                 THEN /\ files' = files \cup {line}
                      /\ linesRead' = linesRead + 1
                      /\ UNCHANGED <<rejected, warnings>>
                 ELSE /\ rejected' = rejected \cup {line}
                      /\ linesRead' = linesRead + 1
                      /\ warnings' = IF verbosity >= 1 THEN warnings + 1 ELSE warnings
                      /\ UNCHANGED files
    /\ UNCHANGED <<pc, fs, mainVars, rawEntries, splitVars, syncVars, exitVars>>

\* the input file is exhausted: __split is entered
EndOfFile ==
    /\ pc = "read"
    /\ pc' = "split"
    /\ rawEntries' = files
    /\ todo' = files
    /\ tmpset' = {}
    /\ UNCHANGED <<fs, mainVars, files, rejected, linesRead, lastLineRead, warnings,
                   newpath, applied, syncVars, exitVars>>

\* for f in self.files: newpath = split(f)[0]
SplitPick ==
    /\ pc = "split"
    /\ \E f \in todo :
          /\ todo' = todo \ {f}
          /\ newpath' = Split(f)[1]
    /\ pc' = "walk"
    /\ UNCHANGED <<fs, mainVars, loadVars, tmpset, applied, syncVars, exitVars>>

\* a walk that stops at the parent directory: if in the place of while
WalkStepOnce ==
    /\ pc = "walk"
    /\ newpath # Root
    /\ tmpset' = tmpset \cup {newpath}
    /\ newpath' = Root
    /\ UNCHANGED <<pc, fs, mainVars, loadVars, todo, applied, syncVars, exitVars>>

\* one turn of while newpath != '/'
WalkStep ==
    /\ pc = "walk"
    /\ newpath # Root
    /\ tmpset' = tmpset \cup {newpath}
    /\ newpath' = Split(newpath)[1]
    /\ UNCHANGED <<pc, fs, mainVars, loadVars, todo, applied, syncVars, exitVars>>

\* the while loop ends
WalkEnd ==
    /\ pc = "walk"
    /\ newpath = Root
    /\ pc' = "split"
    /\ UNCHANGED <<fs, mainVars, loadVars, splitVars, syncVars, exitVars>>

\* a last step that keeps the ancestors alone: self.files = tmpset
SplitUnionOnlyAncestors ==
    /\ pc = "split"
    /\ todo = {}
    /\ files' = tmpset
    /\ applied' = applied + 1
    /\ pc' = "split_done"
    /\ UNCHANGED <<fs, mainVars, rawEntries, rejected, linesRead, lastLineRead,
                   warnings, todo, tmpset, newpath, syncVars, exitVars>>

\* self.files = self.files.union(tmpset)
SplitUnion ==
    /\ pc = "split"
    /\ todo = {}
    /\ files' = files \cup tmpset
    /\ applied' = applied + 1
    /\ pc' = "split_done"
    /\ UNCHANGED <<fs, mainVars, rawEntries, rejected, linesRead, lastLineRead,
                   warnings, todo, tmpset, newpath, syncVars, exitVars>>

\* FileList() returns to __main__
FileListReturn ==
    /\ pc = "split_done"
    /\ pc' = "rsyncer_init"
    /\ UNCHANGED <<fs, mainVars, loadVars, splitVars, syncVars, exitVars>>

(***************************************************************************)
(* Rsyncer                                                                 *)
(***************************************************************************)
\* a constructor that does not check the target directory
RsyncerInitNoCheck ==
    /\ pc = "rsyncer_init"
    /\ rs' = [rsync_loc |-> rsync_loc, target_directory |-> options.target_directory,
              hostname |-> options.hostname, verbosity |-> verbosity,
              flags |-> JoinWith(<<" ">>, flags)]
    /\ pc' = "build"
    /\ UNCHANGED <<fs, mainVars, loadVars, splitVars, command, com, callCount,
                   stdoutSink, sinkOpen, exitVars>>

\* Rsyncer.__init__ up to the check of the target directory
RsyncerInit ==
    /\ pc = "rsyncer_init"
    /\ rs' = [rsync_loc |-> rsync_loc, target_directory |-> options.target_directory,
              hostname |-> options.hostname, verbosity |-> verbosity,
              flags |-> JoinWith(<<" ">>, flags)]
    /\ IF ~IsDir(fs, options.target_directory)
       THEN /\ Fatal(verbosity, "Target directory not found!")
       ELSE /\ pc' = "build"
            /\ UNCHANGED exitVars
    /\ UNCHANGED <<fs, mainVars, loadVars, splitVars, command, com, callCount,
                   stdoutSink, sinkOpen>>

\* the verbosity flag __buildCommand selects
Verb(v) == IF v >= 2 THEN VerboseFlag ELSE IF v = 0 THEN QuietFlag ELSE <<>>

\* the target __buildCommand computes
FullTarget(dir, host) == NormPath(dir \o Root \o host)

\* an argument list with the exclude rule ahead of the include rules
CommandOfExcludeFirst(r, order) ==
    <<r.rsync_loc, Verb(r.verbosity), ArchiveFlag, r.flags, ExcludeAll>>
    \o [i \in 1..Len(order) |-> IncludePrefix \o Strip(order[i])]
    \o <<Root, FullTarget(r.target_directory, r.hostname)>>

\* the argument list __buildCommand builds, the set iterated in a given order
CommandOf(r, order) ==
    <<r.rsync_loc, Verb(r.verbosity), ArchiveFlag, r.flags>>
    \o [i \in 1..Len(order) |-> IncludePrefix \o Strip(order[i])]
    \o <<ExcludeAll, Root, FullTarget(r.target_directory, r.hostname)>>

\* a call that never redirects the subprocess's standard output
SinkOfInherited(v) == "inherited"

\* where call() sends the subprocess's standard output
SinkOf(v) == IF v >= 1 THEN "inherited" ELSE "devnull"

\* Rsyncer.__buildCommand up to the entry into subprocess.call
BuildCommand ==
    /\ pc = "build"
    /\ \E order \in Orderings(files) :
          /\ command' = CommandOf(rs, order)
          /\ com' = JoinWith(<<" ">>, CommandOf(rs, order))
    /\ callCount' = callCount + 1
    /\ stdoutSink' = SinkOf(verbosity)
    /\ sinkOpen' = (SinkOf(verbosity) = "devnull")
    /\ pc' = "running"
    /\ UNCHANGED <<fs, mainVars, loadVars, splitVars, rs, exitVars>>

\* subprocess.call returns, its status is dropped, and the script ends; nothing
\* closes the file opened on os.devnull, which is closed only if the
\* interpreter finalises it
CallReturns ==
    /\ pc = "running"
    /\ \E finalised \in BOOLEAN : sinkOpen' = (sinkOpen /\ ~finalised)
    /\ exitStatus' = 0
    /\ pc' = "done"
    /\ UNCHANGED <<fs, mainVars, loadVars, splitVars, rs, command, com, callCount,
                   stdoutSink, stderr>>

Next ==
    \/ ParseArgs
    \/ RsyncMissing
    \/ RsyncFound
    \/ FileListInit
    \/ ReadLine
    \/ EndOfFile
    \/ SplitPick
    \/ WalkStep
    \/ WalkEnd
    \/ SplitUnion
    \/ FileListReturn
    \/ RsyncerInit
    \/ BuildCommand
    \/ CallReturns

Spec == Init /\ [][Next]_vars

(***************************************************************************)
(* The closure on its own: __split applied, and applied again, to a set of *)
(* paths.                                                                  *)
(***************************************************************************)
PathUniverse ==
    { <<"/", "a", "/", "b", "/", "c", "\n">>,
      <<"/", "a", "/", "b", "/", "c">>,
      <<"/", "a", "/", "b">>,
      <<"/", "a", "/", "d", "\n">>,
      <<"/", "a", "/", "/", "b">>,
      <<"/", "b", "\n">>,
      <<"b", "\n">>,
      <<" ", "/", "b", "\n">> }

SplitInit ==
    /\ pc = "split"
    /\ fs = [files |-> {}, emptyDirs |-> {}]
    /\ files \in {P \in SUBSET PathUniverse : Cardinality(P) <= MaxPaths}
    /\ rawEntries = files
    /\ todo = files
    /\ Blank

\* __split is entered again, on its own result
SplitAgain ==
    /\ pc = "split_done"
    /\ applied = 1
    /\ rawEntries' = files
    /\ todo' = files
    /\ tmpset' = {}
    /\ pc' = "split"
    /\ UNCHANGED <<fs, mainVars, files, rejected, linesRead, lastLineRead, warnings,
                   newpath, applied, syncVars, exitVars>>

SplitNext ==
    \/ SplitPick
    \/ WalkStep
    \/ WalkEnd
    \/ SplitUnion
    \/ SplitAgain

SplitSpec == SplitInit /\ [][SplitNext]_vars

(***************************************************************************)
(* Properties.                                                             *)
(***************************************************************************)
Range(q) == {q[i] : i \in 1..Len(q)}

\* __main__ has parsed its options
Parsed == pc # "start"

\* FileList() has run to its end
Constructed == applied >= 1

\* the three fatal conditions, read off the environment and the options
RsyncNotFound == pc \notin {"start", "find_rsync"} /\ rsync_loc = None
ManifestMissing == Parsed /\ ~IsFile(fs, ExpandUser(options.input_file))
TargetMissing == Parsed /\ ~IsDir(fs, ExpandUser(options.target_directory))
FatalCondition == RsyncNotFound \/ ManifestMissing \/ TargetMissing

Terminated == pc \in {"done", "exited"}

NumComponents(p) == Cardinality({i \in 1..Len(p) : p[i] # "/" /\ (i = 1 \/ p[i - 1] = "/")})

\* C2: once FileList is constructed its set is exactly the accepted entries and
\* their proper ancestor directories, the root is no member, every member's
\* parent is a member unless it is the root, and a single entry of N components
\* brings N-1 ancestors, each a prefix of it that ends where a separator begins.
C2_AncestorClosure ==
    Constructed =>
        /\ files = rawEntries \cup UNION {AncestorsOf(e) : e \in rawEntries}
        /\ Root \notin files
        /\ \A p \in files : Split(p)[1] # Root => Split(p)[1] \in files
        /\ \A e \in rawEntries :
              rawEntries = {e} =>
                  /\ Cardinality(files \ {e}) = NumComponents(e) - 1
                  /\ \A a \in files \ {e} : StartsWith(e, a \o Root)

\* C2 witness: the three-component entry alone has brought its two ancestors.
C2_Witness ==
    /\ Constructed
    /\ pc = "split_done"
    /\ rawEntries = {<<"/", "a", "/", "b", "/", "c", NL>>}
    /\ files = rawEntries \cup {FileAB, <<"/", "a">>}

\* C3: applying the closure to its own result changes nothing.
C3_SplitIdempotent ==
    (pc = "split_done" /\ applied = 2) => files = rawEntries

\* C3 witness: the closure has been applied twice to a set it had extended by
\* two ancestors.
C3_Witness ==
    /\ pc = "split_done"
    /\ applied = 2
    /\ {FileAB, <<"/", "a">>} \subseteq files
    /\ <<"/", "a", "/", "b", "/", "c">> \in files

\* os.path.join of a directory and a name
JoinPath(dir, name) ==
    IF StartsWith(name, Root) THEN name
    ELSE IF dir = <<>> \/ Last(dir) = "/" THEN dir \o name
    ELSE dir \o Root \o name

\* a path has no empty, '.' or '..' component and no trailing separator
IsNormal(p) ==
    /\ p # <<>>
    /\ \A i \in 1..Len(Components(p)) :
          /\ Components(p)[i] \notin {<<".">>, <<".", ".">>}
          /\ i > 1 => Components(p)[i] # <<>>

\* the command has been built
Built == pc \in {"running", "done"}

\* the order of the argument list, up to its last element
CommandShape ==
    LET n == Cardinality(files)
    IN  /\ Len(command) = n + 7
        /\ command[1] = RsyncPath
        /\ command[2] \in {VerboseFlag, QuietFlag, <<>>}
        /\ command[3] = ArchiveFlag
        /\ command[4] = JoinWith(<<" ">>, flags)
        /\ \A f \in files :
              Cardinality({i \in 5..(n + 4) : command[i] = IncludePrefix \o Strip(f)})
                  = Cardinality({g \in files : Strip(g) = Strip(f)})
        /\ \A i \in 1..Len(command) :
              /\ StartsWith(command[i], IncludePrefix) = (i \in 5..(n + 4))
              /\ (command[i] = ExcludeAll) = (i = n + 5)
        /\ command[n + 6] = Root
        /\ com = JoinWith(<<" ">>, command)

\* C4 as stated: the argument list is in the fixed order and its last element
\* is join(destination directory, host identifier).
C4_DestinationIsJoin ==
    Built => /\ CommandShape
             /\ Last(command) = JoinPath(options.target_directory, options.hostname)

\* C4 as amended: the argument list is in the fixed order and its last element
\* is the normalised destination_directory/host_identifier, which is the join of
\* the two whenever the host identifier is relative and that join is already
\* normalised.
C4_CommandOrder ==
    Built =>
        /\ CommandShape
        /\ Last(command) = NormPath(options.target_directory \o Root \o options.hostname)
        /\ IsNormal(Last(command)) \/ Last(command) = Root
        /\ (/\ ~StartsWith(options.hostname, Root)
            /\ IsNormal(JoinPath(options.target_directory, options.hostname)))
              => Last(command) = JoinPath(options.target_directory, options.hostname)

\* C4 witness: a command with three include rules, behaviour flags and the
\* default target directory has been built.
C4_Witness ==
    /\ Built
    /\ Cardinality(files) = 3
    /\ flags = <<DryRunFlag, ChecksumFlag>>
    /\ Last(command) = <<"/", "h", "/", "s", "/", "g">>

\* C5 as stated: the path of a line that failed the existence check is no
\* member of the constructed set, neither as an entry nor as an ancestor.
C5_RejectedNeverMember ==
    Constructed => \A r \in rejected : r \notin files /\ Strip(r) \notin files

\* C5 as amended: a line that failed the existence check is no entry, and its
\* path is a member of the constructed set only as a proper ancestor directory
\* of an accepted entry; the run goes on, and ends with status 0 unless the
\* target directory is missing.
C5_RejectedNeverEntry ==
    /\ \A r \in rejected :
          /\ r \notin rawEntries
          /\ pc = "read" => r \notin files
          /\ \A e \in rawEntries : Strip(e) # Strip(r)
          /\ Constructed =>
                \A x \in {r, Strip(r)} :
                    x \in files => \E e \in rawEntries : StartsWith(e, x \o Root)
    /\ rejected # {} =>
          /\ pc = "done" => exitStatus = 0
          /\ pc = "exited" => TargetMissing
          /\ pc \notin {"done", "exited"} => exitStatus = None

\* C5 witness: a run that rejected a directory and accepted a file below it has
\* ended normally.
C5_Witness ==
    /\ pc = "done"
    /\ <<"/", "a", "/", "b", NL>> \in rejected
    /\ FileAB \in files
    /\ exitStatus = 0

\* the entries the loader holds
Loaded == IF pc = "read" THEN files ELSE rawEntries

\* C6: every stored entry is its line without the trailing whitespace, does not
\* end in a newline, and is the string that passed the existence check.
C6_StoredIsChecked ==
    \A e \in Loaded :
        /\ ~Skipped(e)
        /\ e = RStrip(e)
        /\ Last(e) # NL
        /\ IsFile(fs, e)

\* the verbosity level the options select
QuietLevel == options.quiet
VerboseLevel == options.verbose /\ ~options.quiet
NormalLevel == ~options.verbose /\ ~options.quiet

\* C7: in a run that reaches the execution of the command, quiet sends the
\* subprocess's standard output to the discard sink, verbose adds --verbose,
\* and neither adds no verbosity flag and no redirection.
C7_VerbosityMapping ==
    Built =>
        /\ QuietLevel => stdoutSink = "devnull"
        /\ VerboseLevel => command[2] = VerboseFlag /\ stdoutSink = "inherited"
        /\ NormalLevel => /\ VerboseFlag \notin Range(command)
                          /\ QuietFlag \notin Range(command)
                          /\ stdoutSink = "inherited"

\* C7 witness: a quiet run is executing the command with its output discarded.
C7_Witness ==
    /\ pc = "running"
    /\ QuietLevel /\ ~options.verbose
    /\ stdoutSink = "devnull"
    /\ sinkOpen

C9_SinkClosed == pc = "done" => ~sinkOpen

\* C10: the ancestor walk of every accepted entry goes on to the root: in the
\* walk there is always a step that changes the state.
C10_WalkReachesRoot == pc = "walk" => ENABLED <<WalkStep \/ WalkEnd>>_vars
====
